---- MODULE Spec2Model ----
(***************************************************************************)
(* Piper TTS service: the HTTP endpoint (main.py) and the MCP tool-call    *)
(* adapter (mcp_server.py) over the shared voice registry, the loaded      *)
(* voice cache, the parameter mapping and the PCM post-gain.               *)
(*                                                                         *)
(* Conventions.                                                            *)
(*  - Python Optional[x]: None is the empty tuple <<>>, a value is a       *)
(*    non-empty tuple.  An int is <<k>>; a float is <<num, den>>, the      *)
(*    dyadic rational num/den (den a power of two), which is exactly       *)
(*    representable in IEEE double, so the arithmetic below is exact.      *)
(*  - A str is a sequence of one-character strings.                        *)
(*  - bytes is a sequence of 0..255.                                       *)
(***************************************************************************)
EXTENDS Integers, Sequences, FiniteSets, TLC

----------------------------------------------------------------------------
(* Bounds of the model *)

\* requests (HTTP requests, direct _load_voice calls, tool calls) begun in one run
MaxRequests == 2
\* longest request text, in characters
MaxTextLen == 1
\* most samples in one audio chunk yielded by the engine
MaxChunkLen == 2

\* chunks the engine yields in one synthesis call
MaxChunks == 3

\* characters of a text given to both adapters
MaxPairTextLen == 2

(* Program constants *)

\* main.py:107, the fallback sample rate
DefaultSampleRate == 22050
\* main.py:110 and main.py:176, the epsilon 1e-6 as 1 / EpsInv
EpsInv == 1000000
\* main.py:119 and main.py:120, the signed 16-bit range
Int16Max == 32767
Int16Min == -32768

----------------------------------------------------------------------------
(* Python values *)

None == <<>>

Abs(x) == IF x < 0 THEN -x ELSE x

Sign(x) == IF x < 0 THEN -1 ELSE 1

\* Python truthiness of an Optional number: None and zero are falsy
Truthy(x) == x # None /\ x[1] # 0

\* int(x) of the exact product s * num / den: truncation toward zero.
\* |s| * |num| is split (|s| = 256 * sh + sl) so that no intermediate
\* exceeds 32 bits; den is at most 2^20.
TruncMulDiv(s, num, den) ==
  LET q  == Abs(num) \div den
      r  == Abs(num) % den
      sh == Abs(s) \div 256
      sl == Abs(s) % 256
      qa == (sh * r) \div den
      ra == (sh * r) % den
      m  == Abs(s) * q + qa * 256 + (ra * 256 + sl * r) \div den
  IN  Sign(s) * Sign(num) * m

\* abs(v - 1.0) > 1e-6, for the float v = num/den
DiffersFromOneByMoreThanEps(v) == Abs(v[1] - v[2]) > v[2] \div EpsInv

\* abs(v - 1.0) < 1e-6
DiffersFromOneByLessThanEps(v) == Abs(v[1] - v[2]) < (v[2] + EpsInv - 1) \div EpsInv

\* 1.0 / float(rate); rate is truthy where the code divides, so never 0
Reciprocal(v) == <<Sign(v[1]) * v[2], Abs(v[1])>>

Whitespace == {" "}

RECURSIVE LStrip(_)
LStrip(s) == IF s # <<>> /\ Head(s) \in Whitespace THEN LStrip(Tail(s)) ELSE s

RECURSIVE RStrip(_)
RStrip(s) ==
  IF s # <<>> /\ s[Len(s)] \in Whitespace THEN RStrip(SubSeq(s, 1, Len(s) - 1)) ELSE s

\* the text taken as it comes
NoStrip(s) == s

\* str.strip()
Strip(s) == RStrip(LStrip(s))

----------------------------------------------------------------------------
(* 16-bit PCM, array("h") *)

\* one little-endian signed 16-bit sample from two bytes
Int16OfBytes(lo, hi) ==
  LET u == lo + 256 * hi IN IF u >= 32768 THEN u - 65536 ELSE u

\* array("h").frombytes(pcm_bytes)
FromBytes(b) == [i \in 1..(Len(b) \div 2) |-> Int16OfBytes(b[2 * i - 1], b[2 * i])]

\* array("h").tobytes()
ToBytes(a) ==
  [k \in 1..(2 * Len(a)) |->
     LET u == a[(k + 1) \div 2] % 65536
     IN  IF k % 2 = 1 THEN u % 256 ELSE u \div 256]

\* main.py:118-121, one sample of the gain loop
GainSample(s, volume) ==
  LET v  == TruncMulDiv(s, volume[1], volume[2])
      v1 == IF v > Int16Max THEN Int16Max ELSE v
      v2 == IF v1 < Int16Min THEN Int16Min ELSE v1
  IN  v2

\* main.py:109-122
ApplyPostGain(pcm_bytes, volume) ==
  IF ~Truthy(volume) \/ DiffersFromOneByLessThanEps(volume) THEN pcm_bytes
  ELSE LET a == FromBytes(pcm_bytes)
       IN  ToBytes([i \in 1..Len(a) |-> GainSample(a[i], volume)])

\* main.py:175-177, the per-chunk gain stage of synth
GainStage(audio_data, volume) ==
  IF Truthy(volume) /\ DiffersFromOneByMoreThanEps(volume)
  THEN ApplyPostGain(audio_data, volume)
  ELSE audio_data

----------------------------------------------------------------------------
(* Parameter mapping, main.py:144-164 (the same code is mcp_server.py:182-200) *)

\* main.py:146-152: length_scale = req.length_scale, or 1.0 / rate
EffectiveLengthScale(body) ==
  IF Truthy(body.rate) /\ ~Truthy(body.length_scale)
  THEN Reciprocal(body.rate)
  ELSE body.length_scale

\* main.py:156-164: None, or a piper.SynthesisConfig with the given attributes set
SynConfig(body) ==
  LET length_scale == EffectiveLengthScale(body)
  IN  IF \/ body.speaker # None
         \/ body.noise_scale # None
         \/ length_scale # None
         \/ body.noise_w # None
         \/ body.sentence_silence # None
      THEN <<[speaker_id       |-> body.speaker,
              noise_scale      |-> body.noise_scale,
              length_scale     |-> length_scale,
              noise_w          |-> body.noise_w,
              sentence_silence |-> body.sentence_silence]>>
      ELSE None

\* mcp_server.py:183-188
McpEffectiveLengthScale(body) ==
  IF Truthy(body.rate) /\ ~Truthy(body.length_scale)
  THEN Reciprocal(body.rate)
  ELSE body.length_scale

\* mcp_server.py:191-200
McpSynConfig(body) ==
  LET length_scale == McpEffectiveLengthScale(body)
  IN  IF \/ body.speaker # None
         \/ body.noise_scale # None
         \/ length_scale # None
         \/ body.noise_w # None
         \/ body.sentence_silence # None
      THEN <<[speaker_id       |-> body.speaker,
              noise_scale      |-> body.noise_scale,
              length_scale     |-> length_scale,
              noise_w          |-> body.noise_w,
              sentence_silence |-> body.sentence_silence]>>
      ELSE None

----------------------------------------------------------------------------
(* Sample rate and WAV container *)

\* isinstance(sr, int) and sr > 0
IsPositiveInt(x) == Len(x) = 1 /\ x[1] > 0

\* main.py:100-107
GetSampleRate(voice) ==
  IF IsPositiveInt(voice.sample_rate_hz) THEN voice.sample_rate_hz[1]
  ELSE IF IsPositiveInt(voice.sample_rate) THEN voice.sample_rate[1]
  ELSE DefaultSampleRate

RECURSIVE Concat(_)
Concat(seqs) == IF seqs = <<>> THEN <<>> ELSE Head(seqs) \o Concat(Tail(seqs))

\* main.py:167-180: wave.open(buf, "wb"), the three setters, writeframes per
\* chunk, close; the RIFF/WAVE header as its fields, then the data section
WaveFile(sr, frames) ==
  LET data == Concat(frames)
  IN  [format_tag  |-> 1,
       nchannels   |-> 1,
       sampwidth   |-> 2,
       framerate   |-> sr,
       byte_rate   |-> sr * 2,
       block_align |-> 2,
       riff_size   |-> 36 + Len(data),
       data_size   |-> Len(data),
       data        |-> data]

\* the chunks written last to first
ProcessChunksReversed(chunks, volume) ==
  [i \in 1..Len(chunks) |-> GainStage(chunks[Len(chunks) + 1 - i], volume)]

\* main.py:174-178: every chunk through the gain stage, in arrival order
ProcessChunks(chunks, volume) == [i \in 1..Len(chunks) |-> GainStage(chunks[i], volume)]

\* mcp_server.py:210-212, the per-chunk gain stage of the tool call
McpGainStage(audio_data, volume) ==
  IF Truthy(volume) /\ DiffersFromOneByMoreThanEps(volume)
  THEN ApplyPostGain(audio_data, volume)
  ELSE audio_data

\* mcp_server.py:209-213
McpProcessChunks(chunks, volume) ==
  [i \in 1..Len(chunks) |-> McpGainStage(chunks[i], volume)]

----------------------------------------------------------------------------
(* Inputs *)

\* voice names that requests use
Names == {"en", "xx"}

\* the names whose <name>.onnx may lie in PIPER_MODELS_DIR when the process starts
ModelFiles == {"en"}

\* state of the file <model_path>.json
JsonStates == {"absent", "ok", "unreadable"}

\* worker threads of the HTTP server (synth is a plain def: it runs in the thread pool)
Threads == {"t1", "t2"}

Chars == {" ", "a"}

Texts == UNION {[1..n -> Chars] : n \in 0..MaxTextLen}

\* os.path.join(PIPER_MODELS_DIR, filename), main.py:60
ModelPath(name) == <<"models", name, ".onnx">>

\* a request body with every optional field absent
NoBody ==
  [speaker |-> None, noise_scale |-> None, length_scale |-> None, noise_w |-> None,
   sentence_silence |-> None, rate |-> None, volume |-> None]

\* the request bodies served in the process specification: rate 2.0, volume 1.5
HttpBodies == {[NoBody EXCEPT !.rate = <<2, 1>>, !.volume = <<3, 2>>]}

\* what PiperVoice.load leaves in the attributes _get_sample_rate probes
NoAttrs == [sample_rate_hz |-> None, sample_rate |-> None]

EngineAttrs ==
  {NoAttrs,
   [sample_rate_hz |-> <<0>>, sample_rate |-> <<16000>>]}

\* what voice.synthesize yields: "raise", or a finite sequence of chunks of PCM bytes
EngineOutcomes == {<<"raise">>, <<"chunks", <<ToBytes(<<30000, -2>>)>>>>}

----------------------------------------------------------------------------
(* State *)

VARIABLES
  VOICES,          \* main.py:75, voice name -> model path
  config_json,     \* the file system: state of <model_path>.json per registered voice
  loaded_voices,   \* main.py:83, the cache: voice name -> PiperVoice
  pc,              \* per thread: where it is in synth / _load_voice
  req,             \* per thread: the call it serves
  voice,           \* per thread: the local variable voice of _load_voice
  resp,            \* per thread: how its last call ended
  loads,           \* per name: calls of PiperVoice.load so far
  instances,       \* the PiperVoice objects constructed so far
  synth_calls,     \* calls of voice.synthesize so far
  started,         \* requests begun so far
  tool_call,       \* the last MCP tool call: its number, tool name and arguments
  tool_result,     \* how the last MCP tool call ended
  calc,            \* a pure function under evaluation: its input, then its result
  server           \* which program the process runs: main.py's app or mcp_server.py

vars ==
  <<VOICES, config_json, loaded_voices, pc, req, voice, resp, loads, instances,
    synth_calls, started, tool_call, tool_result, calc, server>>

NoReq == [seq |-> 0, kind |-> "none", name |-> "", text |-> <<>>]

NoToolCall == [seq |-> 0, name |-> "", arguments |-> None]

NoCalc == [stage |-> "none"]

NoResp ==
  [outcome |-> "none", status |-> 0, detail |-> "", voice |-> None,
   text |-> <<>>, syn_config |-> None, wav |-> None]

NoToolResult ==
  [outcome |-> "none", content |-> None, voice |-> None, text |-> <<>>,
   syn_config |-> None]

\* main.py:50-73: names with a .onnx file whose .json exists
DiscoverModels(onnx, json) ==
  [n \in {m \in onnx : json[m] # "absent"} |-> ModelPath(n)]

\* the process after import: main.py:75 and main.py:83
Started(onnx, json) ==
    /\ VOICES = DiscoverModels(onnx, json)
    /\ config_json = [n \in DOMAIN DiscoverModels(onnx, json) |-> json[n]]
    /\ loaded_voices = <<>>
    /\ pc = [t \in Threads |-> "idle"]
    /\ req = [t \in Threads |-> NoReq]
    /\ voice = [t \in Threads |-> None]
    /\ resp = [t \in Threads |-> NoResp]
    /\ loads = [n \in Names |-> 0]
    /\ instances = {}
    /\ synth_calls = 0
    /\ started = 0
    /\ tool_call = NoToolCall
    /\ tool_result = NoToolResult

Init ==
  /\ \E onnx \in SUBSET ModelFiles, json \in [Names -> JsonStates] : Started(onnx, json)
  /\ server \in {"http", "mcp"}
  /\ calc = NoCalc

----------------------------------------------------------------------------
(* The HTTP process: synth and _load_voice, step by step.  A thread can be   *)
(* preempted between the cache lookup of _load_voice, the (slow) call of    *)
(* PiperVoice.load and the store into the cache.  What follows the store    *)
(* touches no shared state and is part of the step that returns the voice.  *)
(* The request body is not read before main.py:146, so it is drawn there.   *)

\* raise HTTPException(status_code, detail)
HTTPException(status, detail) ==
  [NoResp EXCEPT !.outcome = "HTTPException", !.status = status, !.detail = detail]

\* an exception that is no HTTPException leaves synth: the framework answers 500
UnhandledException(kind) ==
  [NoResp EXCEPT !.outcome = "Exception",
                 !.status = IF kind = "synth" THEN 500 ELSE 0,
                 !.detail = "engine"]

\* the cache is never consulted
CacheNeverHit(name) == FALSE

\* main.py:86, name in _loaded_voices
CacheHit(name) == name \in DOMAIN loaded_voices

\* main.py:97, _loaded_voices[name] = voice
CacheStore(name, v) ==
  [n \in (DOMAIN loaded_voices) \cup {name} |-> IF n = name THEN v ELSE loaded_voices[n]]

\* the model path built from the name, whether or not the name is registered
PathFromName(name) == <<ModelPath(name)>>

\* main.py:89, VOICES.get(name)
LookupModelPath(name) == IF name \in DOMAIN VOICES THEN <<VOICES[name]>> ELSE None

\* the config file is taken to be there
ConfigAssumed(name) == TRUE

\* main.py:92, os.path.exists(model_path + ".json"); the models directory holds
\* no .json of a name that is not registered
ConfigExists(name) == name \in DOMAIN config_json /\ config_json[name] # "absent"

\* what PiperVoice.load does with the files it is given: it returns a voice when
\* the config is readable and raises otherwise
Loadable(name) == name \in DOMAIN config_json /\ config_json[name] = "ok"

\* main.py:142-181: sample rate, parameter mapping, synthesis, WAV, response
SynthResponse(v, text, body, outcome) ==
  IF outcome[1] = "raise"
  THEN [UnhandledException("synth") EXCEPT !.voice = v, !.text = text,
                                           !.syn_config = SynConfig(body)]
  ELSE [NoResp EXCEPT !.outcome = "return", !.status = 200, !.detail = "audio/wav",
                      !.voice = v, !.text = text, !.syn_config = SynConfig(body),
                      !.wav = <<WaveFile(GetSampleRate(v[1]),
                                         ProcessChunks(outcome[2], body.volume))>>]

\* the thread's call ends
Finish(t, r) ==
  /\ pc' = [pc EXCEPT ![t] = "done"]
  /\ resp' = [resp EXCEPT ![t] = r]

\* main.py:87 / main.py:98: _load_voice returns v; synth goes on to its end
Returned(t, kind, text, v, body, outcome) ==
  /\ voice' = [voice EXCEPT ![t] = v]
  /\ IF kind = "synth"
     THEN /\ synth_calls' = synth_calls + 1
          /\ Finish(t, SynthResponse(v, text, body, outcome))
     ELSE /\ UNCHANGED synth_calls
          /\ Finish(t, [NoResp EXCEPT !.outcome = "return", !.voice = v])

\* a call that ends before the engine is reached
Rejected(t, r) ==
  /\ Finish(t, r)
  /\ voice' = [voice EXCEPT ![t] = None]
  /\ UNCHANGED synth_calls

\* main.py:85-95: _load_voice up to the call of PiperVoice.load
EnterLoadVoice(t, kind, name, text, body, outcome) ==
  IF CacheHit(name)
  THEN Returned(t, kind, text, loaded_voices[name], body, outcome)
  ELSE IF LookupModelPath(name) = None
  THEN Rejected(t, HTTPException(404, "Voice not found"))
  ELSE IF ~ConfigExists(name)
  THEN Rejected(t, HTTPException(400, "Config JSON not found"))
  ELSE /\ pc' = [pc EXCEPT ![t] = "load"]
       /\ resp' = [resp EXCEPT ![t] = NoResp]
       /\ voice' = [voice EXCEPT ![t] = None]
       /\ UNCHANGED synth_calls

Free(t) == server = "http" /\ pc[t] \in {"idle", "done"} /\ started < MaxRequests

\* main.py:132-141: POST /synthesize/{voice_name}
SynthBegin(t, voice_name, text, body, outcome) ==
  /\ Free(t)
  /\ started' = started + 1
  /\ req' = [req EXCEPT ![t] = [seq |-> started + 1, kind |-> "synth",
                                name |-> voice_name, text |-> text]]
  /\ IF Strip(text) = <<>>
     THEN Rejected(t, HTTPException(400, "Empty text"))
     ELSE IF voice_name \notin DOMAIN VOICES
     THEN Rejected(t, HTTPException(404, "Voice not found. Available voices"))
     ELSE EnterLoadVoice(t, "synth", voice_name, text, body, outcome)
  /\ UNCHANGED <<VOICES, config_json, loaded_voices, loads, instances, tool_call, tool_result, calc, server>>

\* main.py:85-95: _load_voice called on its own
LoadVoiceBegin(t, name) ==
  /\ Free(t)
  /\ started' = started + 1
  /\ req' = [req EXCEPT ![t] = [seq |-> started + 1, kind |-> "load_voice",
                                name |-> name, text |-> <<>>]]
  /\ EnterLoadVoice(t, "load_voice", name, <<>>, NoBody, <<"raise">>)
  /\ UNCHANGED <<VOICES, config_json, loaded_voices, loads, instances, tool_call, tool_result, calc, server>>

\* main.py:96: piper.PiperVoice.load(model_path, config_path)
PiperVoiceLoad(t, attrs) ==
  /\ pc[t] = "load"
  /\ loads' = [loads EXCEPT ![req[t].name] = @ + 1]
  /\ IF Loadable(req[t].name)
     THEN LET v == <<[id |-> Cardinality(instances) + 1, name |-> req[t].name,
                      sample_rate_hz |-> attrs.sample_rate_hz,
                      sample_rate |-> attrs.sample_rate]>>
          IN  /\ instances' = instances \cup {v}
              /\ voice' = [voice EXCEPT ![t] = v]
              /\ pc' = [pc EXCEPT ![t] = "store"]
              /\ UNCHANGED resp
     ELSE /\ Finish(t, UnhandledException(req[t].kind))
          /\ UNCHANGED <<instances, voice>>
  /\ UNCHANGED <<VOICES, config_json, loaded_voices, req, synth_calls, started,
                 tool_call, tool_result, calc, server>>

\* main.py:97-98: store the voice and return it (and main.py:142-181 in synth)
StoreVoice(t, body, outcome) ==
  /\ pc[t] = "store"
  /\ loaded_voices' = CacheStore(req[t].name, voice[t])
  /\ Returned(t, req[t].kind, req[t].text, voice[t], body, outcome)
  /\ UNCHANGED <<VOICES, config_json, req, loads, instances, started, tool_call, tool_result, calc, server>>

\* the environment: the config file of a registered voice is removed, damaged
\* or restored
FsChange(name, s) ==
  /\ config_json[name] # s
  /\ config_json' = [config_json EXCEPT ![name] = s]
  /\ UNCHANGED <<VOICES, loaded_voices, pc, req, voice, resp, loads, instances,
                 synth_calls, started, tool_call, tool_result, calc, server>>

----------------------------------------------------------------------------
(* The MCP process: mcp_server.py.  The handlers are coroutines that never   *)
(* await between their first and last line, so each tool call is one step.  *)

ToolNames == {"text_to_speech", "list_voices", "get_voice_info", "no_such_tool"}

\* arguments["text"]: missing, a str, or a value that is no str
TextArgs == {<<>>, <<"other">>} \cup {<<"str", text>> : text \in Texts}

\* arguments["voice"]: missing, or a str
VoiceArgs == {<<>>} \cup {<<n>> : n \in Names}

\* the other arguments: well-typed fields, or fields pydantic rejects
ToolArguments ==
  [text : TextArgs, voice : VoiceArgs, body : HttpBodies, valid : {TRUE}]
    \cup [text : TextArgs, voice : VoiceArgs, body : {NoBody}, valid : {FALSE}]

\* arguments.get("text", "").strip(): the stripped text, or "raise" (AttributeError)
TextArgument(arguments) ==
  IF arguments.text = <<>> THEN <<"str", <<>>>>
  ELSE IF arguments.text[1] = "str" THEN <<"str", Strip(arguments.text[2])>>
  ELSE <<"raise">>

\* main.py:85-98 run from the first line to the last: how the call ends and
\* what it leaves in the cache and the counters
LoadVoice(name, attrs) ==
  LET same == [cache |-> loaded_voices, loads |-> loads, instances |-> instances]
      v == <<[id |-> Cardinality(instances) + 1, name |-> name,
              sample_rate_hz |-> attrs.sample_rate_hz,
              sample_rate |-> attrs.sample_rate]>>
      counted == [loads EXCEPT ![name] = @ + 1]
  IN  IF CacheHit(name)
      THEN [outcome |-> "return", voice |-> loaded_voices[name], status |-> 0] @@ same
      ELSE IF LookupModelPath(name) = None
      THEN [outcome |-> "HTTPException", voice |-> None, status |-> 404] @@ same
      ELSE IF ~ConfigExists(name)
      THEN [outcome |-> "HTTPException", voice |-> None, status |-> 400] @@ same
      ELSE IF ~Loadable(name)
      THEN [outcome |-> "Exception", voice |-> None, status |-> 0,
            cache |-> loaded_voices, loads |-> counted, instances |-> instances]
      ELSE [outcome |-> "return", voice |-> v, status |-> 0,
            cache |-> CacheStore(name, v), loads |-> counted,
            instances |-> instances \cup {v}]

\* mcp_server.py:231-237: the except branch, a textual error
ErrorContent(message) == <<[kind |-> "error", message |-> message]>>

ToolReturn(content) == [NoToolResult EXCEPT !.outcome = "return", !.content = content]

\* the tool call changes nothing but its result
OnlyResult(r) ==
  /\ tool_result' = r
  /\ UNCHANGED <<loaded_voices, loads, instances, synth_calls>>

\* mcp_server.py:150-237
HandleTextToSpeech(arguments, attrs, outcome) ==
  LET text == TextArgument(arguments)
      voice_name == arguments.voice
  IN  IF text[1] = "raise"
      THEN OnlyResult(ToolReturn(ErrorContent("AttributeError")))
      ELSE IF text[2] = <<>>
      THEN OnlyResult(ToolReturn(ErrorContent("Text cannot be empty")))
      ELSE IF voice_name = <<>>
      THEN OnlyResult(ToolReturn(ErrorContent("Voice must be specified")))
      ELSE IF voice_name[1] \notin DOMAIN VOICES
      THEN OnlyResult(ToolReturn(ErrorContent("Voice not found")))
      ELSE IF ~arguments.valid
      THEN OnlyResult(ToolReturn(ErrorContent("ValidationError")))
      ELSE
        LET l == LoadVoice(voice_name[1], attrs)
            body == arguments.body
        IN  /\ loaded_voices' = l.cache
            /\ loads' = l.loads
            /\ instances' = l.instances
            /\ IF l.outcome # "return"
               THEN /\ tool_result' = ToolReturn(ErrorContent(
                                        IF l.status = 400 THEN "400: Config JSON not found"
                                        ELSE IF l.status = 404 THEN "404: Voice not found"
                                        ELSE "engine"))
                    /\ UNCHANGED synth_calls
               ELSE /\ synth_calls' = synth_calls + 1
                    /\ tool_result' =
                         IF outcome[1] = "raise"
                         THEN [ToolReturn(ErrorContent("engine")) EXCEPT
                                 !.voice = l.voice, !.text = text[2],
                                 !.syn_config = McpSynConfig(body)]
                         ELSE LET wav == WaveFile(GetSampleRate(l.voice[1]),
                                                  McpProcessChunks(outcome[2], body.volume))
                              IN  [ToolReturn(<<[kind |-> "success",
                                                 voice |-> voice_name[1],
                                                 sample_rate |-> GetSampleRate(l.voice[1]),
                                                 size |-> 44 + wav.data_size,
                                                 audio |-> wav]>>) EXCEPT
                                     !.voice = l.voice, !.text = text[2],
                                     !.syn_config = McpSynConfig(body)]

\* mcp_server.py:240-281: one line per voice, with what its config file allows
HandleListVoices ==
  OnlyResult(ToolReturn(
    IF DOMAIN VOICES = {}
    THEN <<[kind |-> "no_voices"]>>
    ELSE <<[kind |-> "voices",
            info |-> [n \in DOMAIN VOICES |->
                        IF ~ConfigExists(n) THEN "No config info available"
                        ELSE IF config_json[n] = "ok" THEN "Language, Dataset"
                        ELSE "Config file exists but couldn't be read"]]>>))

\* mcp_server.py:284-342
HandleGetVoiceInfo(arguments) ==
  LET voice_name == arguments.voice
  IN  OnlyResult(ToolReturn(
        IF voice_name = <<>>
        THEN ErrorContent("Voice name must be specified")
        ELSE IF voice_name[1] \notin DOMAIN VOICES
        THEN ErrorContent("Voice not found")
        ELSE <<[kind |-> "info", voice |-> voice_name[1],
                config |-> IF ~ConfigExists(voice_name[1]) THEN "No config file found"
                           ELSE IF config_json[voice_name[1]] = "ok" THEN "fields"
                           ELSE "Config Error"]>>))

\* mcp_server.py:136-147
HandleCallTool(name, arguments, attrs, outcome) ==
  /\ server = "mcp"
  /\ started < MaxRequests
  /\ started' = started + 1
  /\ tool_call' = [seq |-> started + 1, name |-> name, arguments |-> <<arguments>>]
  /\ IF name = "text_to_speech" THEN HandleTextToSpeech(arguments, attrs, outcome)
     ELSE IF name = "list_voices" THEN HandleListVoices
     ELSE IF name = "get_voice_info" THEN HandleGetVoiceInfo(arguments)
     ELSE OnlyResult([NoToolResult EXCEPT !.outcome = "raise",
                                          !.content = <<[kind |-> "ValueError"]>>])
  /\ UNCHANGED <<VOICES, config_json, pc, req, voice, resp, calc, server>>

Next ==
  \/ \E t \in Threads, n \in Names, text \in Texts, body \in HttpBodies,
        outcome \in EngineOutcomes : SynthBegin(t, n, text, body, outcome)
  \/ \E t \in Threads, n \in Names : LoadVoiceBegin(t, n)
  \/ \E t \in Threads, attrs \in EngineAttrs : PiperVoiceLoad(t, attrs)
  \/ \E t \in Threads, body \in HttpBodies, outcome \in EngineOutcomes :
       StoreVoice(t, body, outcome)
  \/ \E arguments \in ToolArguments, attrs \in EngineAttrs, outcome \in EngineOutcomes :
       HandleCallTool("text_to_speech", arguments, attrs, outcome)
  \/ \E name \in ToolNames \ {"text_to_speech"}, arguments \in ToolArguments :
       HandleCallTool(name, arguments, NoAttrs, <<"raise">>)
  \/ \E n \in DOMAIN VOICES, s \in JsonStates : FsChange(n, s)

Spec == Init /\ [][Next]_vars

----------------------------------------------------------------------------
(* Calls of _load_voice that never overlap: a call begins only when no other *)
(* thread is inside synth or _load_voice                                    *)

Alone(t) == \A u \in Threads \ {t} : pc[u] \in {"idle", "done"}

SeqNext ==
  \/ \E t \in Threads, n \in Names, text \in Texts, body \in HttpBodies,
        outcome \in EngineOutcomes : Alone(t) /\ SynthBegin(t, n, text, body, outcome)
  \/ \E t \in Threads, n \in Names : Alone(t) /\ LoadVoiceBegin(t, n)
  \/ \E t \in Threads, attrs \in EngineAttrs : PiperVoiceLoad(t, attrs)
  \/ \E t \in Threads, body \in HttpBodies, outcome \in EngineOutcomes :
       StoreVoice(t, body, outcome)
  \/ \E arguments \in ToolArguments, attrs \in EngineAttrs, outcome \in EngineOutcomes :
       HandleCallTool("text_to_speech", arguments, attrs, outcome)
  \/ \E name \in ToolNames \ {"text_to_speech"}, arguments \in ToolArguments :
       HandleCallTool(name, arguments, NoAttrs, <<"raise">>)
  \/ \E n \in DOMAIN VOICES, s \in JsonStates : FsChange(n, s)

SeqSpec == Init /\ [][SeqNext]_vars

----------------------------------------------------------------------------
(* The parameter mapping as a function of the request body *)

\* a process that serves nothing: the models directory was empty at startup
Quiescent ==
  /\ Started({}, [n \in Names |-> "absent"])
  /\ server = "http"

OptionalFloats == {None, <<0, 1>>, <<1, 2>>}

MapBodies ==
  [speaker          : {None, <<0>>, <<1>>},
   noise_scale      : OptionalFloats,
   length_scale     : {None, <<0, 1>>, <<1, 1>>, <<3, 4>>},
   noise_w          : OptionalFloats,
   sentence_silence : {None, <<0, 1>>},
   rate             : {None, <<0, 1>>, <<1, 1>>, <<2, 1>>, <<1, 2>>, <<-2, 1>>},
   volume           : {None}]

MapInit ==
  /\ Quiescent
  /\ calc \in {[stage |-> "request", body |-> b] : b \in MapBodies}

Unserved ==
  UNCHANGED <<VOICES, config_json, loaded_voices, pc, req, voice, resp, loads,
              instances, synth_calls, started, tool_call, tool_result, server>>

\* main.py:144-164
MapHttp ==
  /\ calc.stage = "request"
  /\ calc' = [stage |-> "mapped", via |-> "http", body |-> calc.body,
              length_scale |-> EffectiveLengthScale(calc.body),
              syn_config |-> SynConfig(calc.body)]
  /\ Unserved

\* mcp_server.py:182-200
MapMcp ==
  /\ calc.stage = "request"
  /\ calc' = [stage |-> "mapped", via |-> "mcp", body |-> calc.body,
              length_scale |-> McpEffectiveLengthScale(calc.body),
              syn_config |-> McpSynConfig(calc.body)]
  /\ Unserved

MapNext == MapHttp \/ MapMcp

SpecMap == MapInit /\ [][MapNext]_vars

----------------------------------------------------------------------------
(* The gain stage as a function of one chunk and the volume *)

SampleValues == {-32768, -30000, -3, 0, 1, 3, 10000, 30000, 32767}

SampleSeqs == UNION {[1..n -> SampleValues] : n \in 0..MaxChunkLen}

\* 0.0, 0.5, 1.0, 1 + 2^-20, 1 - 2^-20, 1 + 2^-19, 1 - 2^-19, 1.25, 1.5, 2.0, -1.0
Volumes ==
  {None, <<0, 1>>, <<1, 2>>, <<1, 1>>, <<1048577, 1048576>>, <<1048575, 1048576>>,
   <<524289, 524288>>, <<524287, 524288>>, <<5, 4>>, <<3, 2>>, <<2, 1>>, <<-1, 1>>}

GainInit ==
  /\ Quiescent
  /\ calc \in {[stage |-> "chunk", audio_data |-> ToBytes(a), volume |-> v] :
                 a \in SampleSeqs, v \in Volumes}

\* main.py:175-177
GainHttp ==
  /\ calc.stage = "chunk"
  /\ calc' = [stage |-> "gained", via |-> "http", audio_data |-> calc.audio_data,
              volume |-> calc.volume, out |-> GainStage(calc.audio_data, calc.volume)]
  /\ Unserved

\* mcp_server.py:210-212
GainMcp ==
  /\ calc.stage = "chunk"
  /\ calc' = [stage |-> "gained", via |-> "mcp", audio_data |-> calc.audio_data,
              volume |-> calc.volume, out |-> McpGainStage(calc.audio_data, calc.volume)]
  /\ Unserved

\* main.py:109-122, _apply_post_gain called on its own
GainDirect ==
  /\ calc.stage = "chunk"
  /\ calc' = [stage |-> "gained", via |-> "direct", audio_data |-> calc.audio_data,
              volume |-> calc.volume, out |-> ApplyPostGain(calc.audio_data, calc.volume)]
  /\ Unserved

GainNext == GainHttp \/ GainMcp \/ GainDirect

SpecGain == GainInit /\ [][GainNext]_vars

----------------------------------------------------------------------------
(* The WAV assembly as a function of the chunks the engine yields, the      *)
(* volume and the loaded voice                                              *)

\* the chunks voice.synthesize may yield: audio_int16_bytes of 0, 1 or 2 samples
ChunkChoices == {<<>>, ToBytes(<<1>>), ToBytes(<<-32768>>), ToBytes(<<30000, -2>>)}

ChunkSeqs == UNION {[1..n -> ChunkChoices] : n \in 0..MaxChunks}

WavVolumes == {None, <<0, 1>>, <<1, 1>>, <<3, 2>>}

WavAttrs == EngineAttrs \cup {[sample_rate_hz |-> <<44100>>, sample_rate |-> <<16000>>]}

\* a PiperVoice as PiperVoice.load returns it, main.py:96
LoadedVoice(attrs) ==
  <<[id |-> 1, name |-> "en", sample_rate_hz |-> attrs.sample_rate_hz,
     sample_rate |-> attrs.sample_rate]>>

WavInit ==
  /\ Quiescent
  /\ calc \in {[stage |-> "engine", chunks |-> c, volume |-> v, voice |-> LoadedVoice(a)] :
                 c \in ChunkSeqs, v \in WavVolumes, a \in WavAttrs}

\* main.py:142-181 with the engine yielding calc.chunks
WavHttp ==
  /\ calc.stage = "engine"
  /\ calc' = [stage |-> "assembled", via |-> "http", chunks |-> calc.chunks,
              volume |-> calc.volume, voice |-> calc.voice,
              wav |-> SynthResponse(calc.voice, <<"a">>,
                                    [NoBody EXCEPT !.volume = calc.volume],
                                    <<"chunks", calc.chunks>>).wav[1]]
  /\ Unserved

\* mcp_server.py:180, 203-215 with the engine yielding calc.chunks
WavMcp ==
  /\ calc.stage = "engine"
  /\ calc' = [stage |-> "assembled", via |-> "mcp", chunks |-> calc.chunks,
              volume |-> calc.volume, voice |-> calc.voice,
              wav |-> WaveFile(GetSampleRate(calc.voice[1]),
                               McpProcessChunks(calc.chunks, calc.volume))]
  /\ Unserved

WavNext == WavHttp \/ WavMcp

SpecWav == WavInit /\ [][WavNext]_vars

----------------------------------------------------------------------------
(* The two adapters on the same call: mcp_server.py imports main, so synth  *)
(* and the text_to_speech tool live in one process and see one registry,    *)
(* one cache and one file system.  synth is evaluated on the state the tool *)
(* call then starts from.                                                   *)

PairTexts == UNION {[1..n -> Chars] : n \in 0..MaxPairTextLen}

PairBodies == {NoBody} \cup HttpBodies

\* main.py:132-181 run from the first line to the last by one thread alone:
\* the response of synth, or the exception that leaves it
Synth(voice_name, text, body, attrs, outcome) ==
  IF Strip(text) = <<>>
  THEN HTTPException(400, "Empty text")
  ELSE IF voice_name \notin DOMAIN VOICES
  THEN HTTPException(404, "Voice not found. Available voices")
  ELSE LET l == LoadVoice(voice_name, attrs)
       IN  IF l.outcome = "HTTPException"
           THEN HTTPException(l.status, IF l.status = 400 THEN "Config JSON not found"
                                        ELSE "Voice not found")
           ELSE IF l.outcome = "Exception"
           THEN UnhandledException("synth")
           ELSE SynthResponse(l.voice, text, body, outcome)

PairInit ==
  /\ \E onnx \in SUBSET ModelFiles, json \in [Names -> JsonStates] : Started(onnx, json)
  /\ server = "mcp"
  /\ calc \in {[stage |-> "call", voice_name |-> n, text |-> text, body |-> body,
                attrs |-> attrs, outcome |-> outcome, http |-> NoResp] :
                 n \in Names, text \in PairTexts, body \in PairBodies,
                 attrs \in EngineAttrs, outcome \in EngineOutcomes}

\* the config file changes before the call reaches either adapter
PairFsChange(name, s) == calc.stage = "call" /\ FsChange(name, s)

\* main.py:132-181 on the call
PairHttp ==
  /\ calc.stage = "call"
  /\ calc' = [calc EXCEPT !.stage = "http",
                          !.http = Synth(calc.voice_name, calc.text, calc.body,
                                         calc.attrs, calc.outcome)]
  /\ Unserved

\* mcp_server.py:136-237 on the same call: the text and the voice name as
\* arguments, the parameters as the remaining arguments
PairMcp ==
  /\ calc.stage = "http"
  /\ tool_call = NoToolCall
  /\ HandleCallTool("text_to_speech",
                    [text |-> <<"str", calc.text>>, voice |-> <<calc.voice_name>>,
                     body |-> calc.body, valid |-> TRUE],
                    calc.attrs, calc.outcome)

PairNext ==
  \/ \E n \in DOMAIN VOICES, s \in JsonStates : PairFsChange(n, s)
  \/ PairHttp
  \/ PairMcp

SpecPair == PairInit /\ [][PairNext]_vars

----------------------------------------------------------------------------
(* Properties *)

InstancesOf(n) == {v \in instances : v[1].name = n}

\* thread t begins a call in this step
Began(t) == req'[t].seq # req[t].seq

\* a tool call is made in this step
ToolCalled == tool_call'.seq # tool_call.seq

\* every character is whitespace (the empty text included)
IsBlank(text) == \A i \in 1..Len(text) : text[i] \in Whitespace

\* the step reaches neither PiperVoice.load nor voice.synthesize and leaves
\* the cache as it was
NoEngineInvocation ==
  /\ loads' = loads
  /\ instances' = instances
  /\ synth_calls' = synth_calls
  /\ loaded_voices' = loaded_voices

\* C1: however concurrent requests for one voice name interleave, no two
\* engine instances are ever constructed for that name.
C1_OneInstancePerName == \A n \in Names : Cardinality(InstancesOf(n)) <= 1

\* C2 as stated: over calls of _load_voice that do not overlap,
\* PiperVoice.load runs at most once for a voice name.
C2_LoadRunsAtMostOnce == \A n \in Names : loads[n] <= 1

\* a call for name n that returned a voice
ReturnedFor(t, n) == pc[t] = "done" /\ req[t].name = n /\ resp[t].outcome = "return"

\* C2 as amended: over calls of _load_voice that do not overlap, at most one
\* engine instance is ever constructed for a voice name (a load that raised
\* stored nothing and is run again by the next call), every call that
\* returns returns the handle stored in the cache, with the same derived
\* sample rate, and no handle for the name exists beside the stored one.
C2_SequentialIdempotent ==
  \A n \in Names :
    /\ Cardinality(InstancesOf(n)) <= 1
    /\ n \in DOMAIN loaded_voices => InstancesOf(n) = {loaded_voices[n]}
    /\ \A t \in Threads :
         ReturnedFor(t, n) =>
           /\ n \in DOMAIN loaded_voices
           /\ resp[t].voice = loaded_voices[n]
           /\ resp[t].wav # None =>
                resp[t].wav[1].framerate = GetSampleRate(loaded_voices[n][1])
    /\ \A t, u \in Threads :
         ReturnedFor(t, n) /\ ReturnedFor(u, n) =>
           GetSampleRate(resp[t].voice[1]) = GetSampleRate(resp[u].voice[1])
    /\ (tool_result.voice # None /\ tool_call.arguments[1].voice = <<n>>) =>
         /\ n \in DOMAIN loaded_voices
         /\ tool_result.voice = loaded_voices[n]

\* two calls, one after the other, returned the same voice after one load
C2_Witness ==
  \E t, u \in Threads, n \in Names :
    /\ t # u
    /\ ReturnedFor(t, n) /\ ReturnedFor(u, n)
    /\ resp[t].voice = resp[u].voice
    /\ loads[n] = 1

\* C3 as stated: a call for a voice name that is not registered ends with
\* 404 and leaves the registry and the cache as they were.
C3_UnknownVoiceIs404 ==
  [][\A t \in Threads :
       (Began(t) /\ req'[t].name \notin DOMAIN VOICES) =>
         /\ pc'[t] = "done"
         /\ resp'[t].outcome = "HTTPException"
         /\ resp'[t].status = 404
         /\ VOICES' = VOICES
         /\ loaded_voices' = loaded_voices]_vars

\* C3 as amended: a call for a voice name that is not registered is rejected
\* and leaves the registry and the cache as they were; the status is 404 from
\* _load_voice and from the endpoint when the request text is not blank, and
\* 400 from the endpoint when the text is blank, which is checked first.
C3_UnknownVoiceRejected ==
  [][\A t \in Threads :
       (Began(t) /\ req'[t].name \notin DOMAIN VOICES) =>
         /\ pc'[t] = "done"
         /\ resp'[t].outcome = "HTTPException"
         /\ resp'[t].status =
              IF req'[t].kind = "synth" /\ IsBlank(req'[t].text) THEN 400 ELSE 404
         /\ VOICES' = VOICES
         /\ loaded_voices' = loaded_voices]_vars

\* the endpoint and _load_voice have both answered 404 for an unknown name
C3_Witness ==
  \E t, u \in Threads :
    /\ pc[t] = "done" /\ req[t].kind = "synth" /\ req[t].name \notin DOMAIN VOICES
    /\ resp[t].status = 404
    /\ pc[u] = "done" /\ req[u].kind = "load_voice" /\ req[u].name \notin DOMAIN VOICES
    /\ resp[u].status = 404

\* arguments["text"] is missing or a blank str
BlankTextArgument(arguments) ==
  \/ arguments.text = <<>>
  \/ arguments.text[1] = "str" /\ IsBlank(arguments.text[2])

\* C4: a request whose text is empty or whitespace-only is rejected, with 400
\* by the endpoint and with a textual error by the tool call, whatever its
\* voice name and other fields, and it reaches neither the engine load nor
\* the engine synthesis and leaves the cache as it was.
C4_BlankTextRejected ==
  [][/\ \A t \in Threads :
          (Began(t) /\ req'[t].kind = "synth" /\ IsBlank(req'[t].text)) =>
            /\ pc'[t] = "done"
            /\ resp'[t].outcome = "HTTPException"
            /\ resp'[t].status = 400
            /\ NoEngineInvocation
     /\ (/\ ToolCalled
         /\ tool_call'.name = "text_to_speech"
         /\ BlankTextArgument(tool_call'.arguments[1])) =>
            /\ tool_result'.outcome = "return"
            /\ tool_result'.content[1].kind = "error"
            /\ NoEngineInvocation]_vars

\* a whitespace-only request for a registered voice was answered 400
C4_Witness ==
  \E t \in Threads :
    /\ pc[t] = "done" /\ req[t].kind = "synth"
    /\ req[t].name \in DOMAIN VOICES
    /\ Len(req[t].text) > 0 /\ IsBlank(req[t].text)
    /\ resp[t].status = 400

\* C5: a call of _load_voice for a registered voice that is not in the cache
\* and whose config file is absent ends with 400, not 404, constructs no
\* engine instance and leaves the cache as it was.
C5_ConfigMissingIs400 ==
  [][\A t \in Threads :
       (/\ Began(t)
        /\ req'[t].kind = "synth" => ~IsBlank(req'[t].text)
        /\ req'[t].name \in DOMAIN VOICES
        /\ req'[t].name \notin DOMAIN loaded_voices
        /\ config_json[req'[t].name] = "absent") =>
         /\ pc'[t] = "done"
         /\ resp'[t].outcome = "HTTPException"
         /\ resp'[t].status = 400
         /\ loads' = loads
         /\ instances' = instances
         /\ loaded_voices' = loaded_voices]_vars

\* a call for a registered voice was answered 400 for its missing config
C5_Witness ==
  \E t \in Threads :
    /\ pc[t] = "done"
    /\ req[t].name \in DOMAIN VOICES
    /\ resp[t].status = 400
    /\ resp[t].detail = "Config JSON not found"

\* C6: every tool call, whatever the tool name and the arguments, ends by
\* returning textual content and never by raising.
C6_ToolCallNeverRaises ==
  tool_call.seq > 0 =>
    /\ tool_result.outcome = "return"
    /\ tool_result.content # None

\* x = 1 / r
IsReciprocal(x, r) == x # None /\ x[1] * r[1] = x[2] * r[2]

\* rate is set and is not zero
RateGiven(body) == body.rate # None /\ body.rate[1] # 0

\* C7: the length_scale handed to the engine is the request's length_scale
\* whenever the request sets it, whatever its value and whatever rate is;
\* otherwise 1 / rate when rate is set and not zero; otherwise unset.
C7_LengthScaleMapping ==
  calc.stage = "mapped" =>
    IF calc.body.length_scale # None
    THEN calc.length_scale = calc.body.length_scale
    ELSE IF RateGiven(calc.body)
    THEN IsReciprocal(calc.length_scale, calc.body.rate)
    ELSE calc.length_scale = None

CopiedFields == {"speaker", "noise_scale", "noise_w", "sentence_silence"}

\* the attribute of the parameter object that field f of the request sets
Attribute(f) == IF f = "speaker" THEN "speaker_id" ELSE f

\* C8: the engine gets no parameter object when speaker, noise_scale,
\* length_scale (as mapped from the request), noise_w and sentence_silence are
\* all absent; a field the request sets to zero reaches the engine set to
\* zero; a field absent from the request is never set on the object.
C8_NoOverrideAndZeroKept ==
  calc.stage = "mapped" =>
    LET body == calc.body
        absent == /\ \A f \in CopiedFields : body[f] = None
                  /\ body.length_scale = None
                  /\ ~RateGiven(body)
    IN  /\ absent => calc.syn_config = None
        /\ \A f \in CopiedFields \cup {"length_scale"} :
             (body[f] # None /\ body[f][1] = 0) =>
               /\ calc.syn_config # None
               /\ calc.syn_config[1][Attribute(f)] = body[f]
        /\ \A f \in CopiedFields :
             (body[f] = None /\ calc.syn_config # None) =>
               calc.syn_config[1][Attribute(f)] = None
        /\ (body.length_scale = None /\ ~RateGiven(body) /\ calc.syn_config # None) =>
             calc.syn_config[1].length_scale = None

\* C9: with rate 1.0 and no length_scale in the request, the engine gets for
\* length_scale what it gets when rate is unset: nothing.
C9_RateOneIsNoOverride ==
  (calc.stage = "mapped" /\ calc.body.rate = <<1, 1>> /\ calc.body.length_scale = None) =>
    /\ calc.length_scale = None
    /\ calc.syn_config # None => calc.syn_config[1].length_scale = None

\* the sample s times volume, truncated toward zero, clamped to 16 bits
Scaled(s, volume) ==
  LET v == TruncMulDiv(s, volume[1], volume[2])
  IN  IF v > 32767 THEN 32767 ELSE IF v < -32768 THEN -32768 ELSE v

\* C10: for a volume that is set and differs from 1.0 by more than 1e-6,
\* every output sample is the input sample times volume, truncated toward
\* zero and clamped to [-32768, 32767], in the same number and order;
\* otherwise the chunk comes out byte for byte as it went in.
C10_GainScaling ==
  (calc.stage = "gained" /\ calc.via # "direct") =>
    IF calc.volume # None /\ DiffersFromOneByMoreThanEps(calc.volume)
    THEN /\ Len(calc.out) = Len(calc.audio_data)
         /\ \A i \in 1..Len(FromBytes(calc.audio_data)) :
              FromBytes(calc.out)[i] = Scaled(FromBytes(calc.audio_data)[i], calc.volume)
    ELSE calc.out = calc.audio_data

\* the gain stage's output for chunk i of the call under evaluation
Processed(i) ==
  IF calc.via = "http" THEN GainStage(calc.chunks[i], calc.volume)
  ELSE McpGainStage(calc.chunks[i], calc.volume)

\* bytes written before chunk i
RECURSIVE Offset(_)
Offset(i) == IF i = 1 THEN 0 ELSE Offset(i - 1) + Len(Processed(i - 1))

\* samples the engine yielded in all chunks together
RECURSIVE TotalSamples(_)
TotalSamples(n) == IF n = 0 THEN 0 ELSE TotalSamples(n - 1) + Len(FromBytes(calc.chunks[n]))

\* C11: for any finite sequence of chunks of one synthesis call, the data
\* section of the container holds the gain-processed chunks one after the
\* other in arrival order (chunk i lies at the offset where chunk i-1 ends,
\* nothing before the first, nothing after the last), its length, as it is
\* and as the header declares it, is 2 * total samples, and the header
\* declares PCM, 1 channel, 16-bit width and the voice's derived sample rate.
C11_WavAssembly ==
  calc.stage = "assembled" =>
    LET n == Len(calc.chunks)
        wav == calc.wav
    IN  /\ \A i \in 1..n :
             SubSeq(wav.data, Offset(i) + 1, Offset(i) + Len(Processed(i))) = Processed(i)
        /\ Len(wav.data) = Offset(n + 1)
        /\ Len(wav.data) = 2 * TotalSamples(n)
        /\ wav.data_size = Len(wav.data)
        /\ wav.riff_size = 36 + Len(wav.data)
        /\ wav.format_tag = 1
        /\ wav.nchannels = 1
        /\ wav.sampwidth * 8 = 16
        /\ wav.block_align = 2
        /\ wav.framerate = GetSampleRate(calc.voice[1])
        /\ wav.byte_rate = 2 * GetSampleRate(calc.voice[1])

\* three chunks of different lengths, an empty one among them, scaled by 1.5
\* and assembled for a voice whose rate is not the fallback
C11_Witness ==
  /\ calc.stage = "assembled"
  /\ calc.via = "http"
  /\ calc.chunks = <<ToBytes(<<30000, -2>>), <<>>, ToBytes(<<1>>)>>
  /\ calc.volume = <<3, 2>>
  /\ calc.wav.framerate = 44100
  /\ calc.wav.data = ToBytes(<<32767, -3, 1>>)

\* both adapters have answered the call
BothAnswered == calc.stage = "http" /\ tool_call.seq = 1

\* the check at which synth ended the call, or how far it got
HttpEnded(r) ==
  IF r.outcome = "return" THEN "wav"
  ELSE IF r.outcome = "Exception" THEN "engine"
  ELSE IF r.detail = "Empty text" THEN "text"
  ELSE IF r.detail = "Voice not found. Available voices" THEN "voice"
  ELSE IF r.detail = "Config JSON not found" THEN "config"
  ELSE "other"

\* the check at which the tool call ended, or how far it got
McpEnded(r) ==
  IF r.outcome # "return" THEN "raise"
  ELSE IF r.content[1].kind = "success" THEN "wav"
  ELSE IF r.content[1].message = "engine" THEN "engine"
  ELSE IF r.content[1].message = "Text cannot be empty" THEN "text"
  ELSE IF r.content[1].message = "Voice not found" THEN "voice"
  ELSE IF r.content[1].message = "400: Config JSON not found" THEN "config"
  ELSE "other"

\* the WAV container inside the tool call's result, if it has one
McpWav(r) ==
  IF r.outcome = "return" /\ r.content[1].kind = "success"
  THEN <<r.content[1].audio>>
  ELSE None

\* C12: for the same voice name, text and parameters, from the same state,
\* synth and the text_to_speech tool end at the same check or both pass all
\* of them, use the same voice, give the engine the same text and the same
\* parameter object, and assemble the same WAV container.
C12_SameInvocation ==
  BothAnswered =>
    /\ HttpEnded(calc.http) = McpEnded(tool_result)
    /\ calc.http.voice = tool_result.voice
    /\ calc.http.text = tool_result.text
    /\ calc.http.syn_config = tool_result.syn_config
    /\ calc.http.wav = McpWav(tool_result)

====
